---- MODULE Spec2Model ----
(***************************************************************************)
(* The TaskForm component (frontend/components/TaskForm.tsx and its        *)
(* restyled twin in the second source file) as a state machine: the React  *)
(* state of one mounted form, the user-input handlers, and the persistence *)
(* calls in flight.                                                        *)
(*                                                                         *)
(* Strings that are trimmed or measured (title, description) are kept      *)
(* run-length encoded: a sequence of runs [c |-> character, n |-> count],  *)
(* adjacent runs holding different characters.  length and trim are        *)
(* computed on that encoding.                                              *)
(***************************************************************************)
EXTENDS Integers, Sequences, FiniteSets, TLC

VARIABLES
    variant,            \* which source file the mounted component comes from
    props,              \* the construction parameters read after mount
    formData,           \* useState<FormData>:   [title, description]
    category,           \* useState<string|null>
    priority,           \* useState<string>
    dueDate,            \* useState<Date|null>
    loading,            \* useState(false)
    validationErrors,   \* useState<ValidationErrors>({})
    error,              \* useState<string>('')
    pending,            \* onSubmit calls that have not settled yet
    lastSubmit,         \* how far the latest handleSubmit run got, and with what
    twin                \* the second file's TaskForm, mounted with the same props
                        \* and fed the same events

vars == <<variant, props, formData, category, priority, dueDate,
          loading, validationErrors, error, pending, lastSubmit, twin>>

draft == <<formData, category, priority, dueDate>>

----------------------------------------------------------------------------
(* Bounds of the model *)

\* longest run of leading / trailing whitespace a typed value carries
MaxPad == 1
\* typed values take every length from Slack below a limit to Slack above it
Slack == 1

(* Program constants *)

TITLE_MAX == 200
DESC_MAX == 1000

----------------------------------------------------------------------------
(* Optional values: null / undefined is <<>>, a present value v is <<v>> *)

null == <<>>
undefined == <<>>
Some(v) == <<v>>

----------------------------------------------------------------------------
(* Strings *)

WhiteSpace == {" ", "\t"}

Rep(c, n) == IF n = 0 THEN <<>> ELSE <<[c |-> c, n |-> n]>>

Concat(s, t) ==
    IF s = <<>> THEN t
    ELSE IF t = <<>> THEN s
    ELSE IF s[Len(s)].c = t[1].c
         THEN SubSeq(s, 1, Len(s) - 1)
                \o <<[c |-> t[1].c, n |-> s[Len(s)].n + t[1].n]>>
                \o Tail(t)
         ELSE s \o t

RECURSIVE length(_)
length(s) == IF s = <<>> THEN 0 ELSE s[1].n + length(Tail(s))

SetMin(S) == CHOOSE x \in S : \A y \in S : x <= y
SetMax(S) == CHOOSE x \in S : \A y \in S : x >= y

trim(s) ==
    LET solid == {i \in 1..Len(s) : s[i].c \notin WhiteSpace}
    IN  IF solid = {} THEN <<>> ELSE SubSeq(s, SetMin(solid), SetMax(solid))

Truthy(s) == s # <<>>             \* JS truthiness of a string / nullable value

Lookup(obj, k) == IF k \in DOMAIN obj THEN obj[k] ELSE undefined

----------------------------------------------------------------------------
(* Values the environment supplies *)

Variants == {"TaskForm.tsx", "part_000"}

Pad(l, s, r) == Concat(Concat(Rep(" ", l), s), Rep("\t", r))

NearLimit(max) == (max - Slack + 1)..(max + Slack)

Pads == {0, MaxPad}

\* what can be typed into the title input
TitleValues ==
    {Pad(l, <<>>, l) : l \in 0..MaxPad}
      \cup {Rep(" ", TITLE_MAX + k) : k \in 1..Slack}
      \cup {Pad(l, Rep("a", 1), l) : l \in 0..MaxPad}
      \cup {Pad(l, Rep("a", n - 2 * l), l) : l \in Pads, n \in NearLimit(TITLE_MAX)}

\* what can be typed into the description textarea
DescriptionValues ==
    {Pad(l, <<>>, 0) : l \in Pads}
      \cup {Pad(l, Rep("a", n - 2 * l), l) : l \in Pads, n \in NearLimit(DESC_MAX)}

Categories == {null, Some("work")}
Priorities == {"medium", "high"}
DATE_1 == [time |-> 20468]          \* new Date("2026-01-15"), in days
DueDates == {null, Some(DATE_1)}

NewDate(str) == IF str = "2026-01-15" THEN DATE_1 ELSE [time |-> -1]

PropsValues ==
    [initialTitle       : {<<>>, Rep("a", 1)},
     initialDescription : {<<>>, Rep("a", 1)},
     initialCategory    : Categories,
     initialPriority    : {null, Some("high")},
     initialDueDate     : {null, Some("2026-01-15")}]

\* what a failing onSubmit throws or rejects with
Thrown ==
    {[isError |-> TRUE,  message |-> "Network error"],
     [isError |-> TRUE,  message |-> ""],
     [isError |-> FALSE, message |-> "boom"]}

----------------------------------------------------------------------------
(* The component *)

FieldNames == {"title", "description"}

TitleRequired(v) ==
    IF v = "TaskForm.tsx" THEN "Task title is required" ELSE "Title is required"
TitleTooLong(v) ==
    IF v = "TaskForm.tsx" THEN "Title must be under 200 characters"
                          ELSE "Title must not exceed 200 characters"
DescriptionTooLong(v) ==
    IF v = "TaskForm.tsx" THEN "Description must be under 1000 characters"
                          ELSE "Description must not exceed 1000 characters"
FALLBACK_MESSAGE == "Failed to save task"

\* a title check that tests the untrimmed title for emptiness
TitleError_Untrimmed(title, v) ==
    IF ~Truthy(title) THEN Some(TitleRequired(v))
    ELSE IF length(title) > TITLE_MAX THEN Some(TitleTooLong(v))
    ELSE undefined

\* a title check whose limit is off by one
TitleError_OffByOne(title, v) ==
    IF ~Truthy(trim(title)) THEN Some(TitleRequired(v))
    ELSE IF length(title) >= TITLE_MAX THEN Some(TitleTooLong(v))
    ELSE undefined

\* if (!formData.title.trim()) ... else if (formData.title.length > 200) ...
TitleError(title, v) ==
    IF ~Truthy(trim(title)) THEN Some(TitleRequired(v))
    ELSE IF length(title) > TITLE_MAX THEN Some(TitleTooLong(v))
    ELSE undefined

\* a description check that measures the trimmed description
DescriptionError_Trimmed(description, v) ==
    IF length(trim(description)) > DESC_MAX THEN Some(DescriptionTooLong(v))
    ELSE undefined

\* if (formData.description.length > 1000) ...
DescriptionError(description, v) ==
    IF length(description) > DESC_MAX THEN Some(DescriptionTooLong(v))
    ELSE undefined

\* a validateForm that stops at the first failing field
validateFormErrors_FirstOnly(fd, v) ==
    LET keys == IF TitleError(fd.title, v) # undefined THEN {"title"}
                ELSE IF DescriptionError(fd.description, v) # undefined
                     THEN {"description"} ELSE {}
    IN  [k \in keys |-> IF k = "title" THEN TitleError(fd.title, v)
                        ELSE DescriptionError(fd.description, v)]

\* const errors = {}; ...; the object validateForm builds
validateFormErrors(fd, v) ==
    LET keys == {k \in FieldNames :
                    \/ k = "title" /\ TitleError(fd.title, v) # undefined
                    \/ k = "description"
                         /\ DescriptionError(fd.description, v) # undefined}
    IN  [k \in keys |-> IF k = "title" THEN TitleError(fd.title, v)
                        ELSE DescriptionError(fd.description, v)]

\* a validateForm that reports success whatever it recorded
validateFormReturn_Always(errors) == TRUE

\* return Object.keys(errors).length === 0
validateFormReturn(errors) == Cardinality(DOMAIN errors) = 0

\* a call that passes the draft's strings as typed
OnSubmitArgs_Untrimmed(fd, cat, prio, due) ==
    [title |-> fd.title, description |-> fd.description,
     category |-> cat, priority |-> prio, dueDate |-> due]

\* onSubmit(formData.title.trim(), formData.description.trim(), category, ...)
OnSubmitArgs(fd, cat, prio, due) ==
    [title |-> trim(fd.title), description |-> trim(fd.description),
     category |-> cat, priority |-> prio, dueDate |-> due]

\* err instanceof Error ? err.message : 'Failed to save task'
CatchMessage(err) == IF err.isError THEN err.message ELSE FALLBACK_MESSAGE

\* a mode test that takes either empty initial field for create mode
IsCreateMode_Either(p) == ~Truthy(p.initialTitle) \/ ~Truthy(p.initialDescription)

\* !initialTitle && !initialDescription
IsCreateMode(p) == ~Truthy(p.initialTitle) /\ ~Truthy(p.initialDescription)

\* the props the handlers read after the first render
KeptProps(p) ==
    [initialTitle |-> p.initialTitle, initialDescription |-> p.initialDescription]

\* useState<string>(initialPriority || 'medium')
InitialPriority(p) ==
    IF Truthy(p.initialPriority) /\ p.initialPriority[1] # ""
    THEN p.initialPriority[1] ELSE "medium"

\* useState<Date | null>(initialDueDate ? new Date(initialDueDate) : null)
InitialDueDate(p) ==
    IF Truthy(p.initialDueDate) /\ p.initialDueDate[1] # ""
    THEN Some(NewDate(p.initialDueDate[1])) ELSE null

\* lastSubmit: "none" when the latest event was no part of handleSubmit
Progress(kind, err, args) == [kind |-> kind, err |-> err, args |-> args]
NoSubmit == Progress("none", undefined, undefined)

----------------------------------------------------------------------------
(* The TaskForm of the second source file, as functions on its state       *)

P2_TITLE_MAX == 200
P2_DESC_MAX == 1000

\* the useState initial values
P2_mount(p) ==
    [props |-> [initialTitle |-> p.initialTitle,
                initialDescription |-> p.initialDescription],
     formData |-> [title |-> p.initialTitle, description |-> p.initialDescription],
     category |-> p.initialCategory,
     priority |-> IF p.initialPriority # null /\ p.initialPriority[1] # ""
                  THEN p.initialPriority[1] ELSE "medium",
     dueDate |-> IF p.initialDueDate # null /\ p.initialDueDate[1] # ""
                 THEN Some(NewDate(p.initialDueDate[1])) ELSE null,
     loading |-> FALSE,
     validationErrors |-> [k \in {} |-> undefined],
     error |-> "",
     pending |-> <<>>]

\* a validateForm that measures the trimmed title
P2_validateForm_TrimmedLength(fd) ==
    LET titleError ==
            IF trim(fd.title) = <<>> THEN Some("Title is required")
            ELSE IF length(trim(fd.title)) > P2_TITLE_MAX
                 THEN Some("Title must not exceed 200 characters")
            ELSE undefined
        descriptionError ==
            IF length(fd.description) > P2_DESC_MAX
            THEN Some("Description must not exceed 1000 characters")
            ELSE undefined
        keys == {k \in {"title", "description"} :
                    IF k = "title" THEN titleError # undefined
                    ELSE descriptionError # undefined}
    IN  [k \in keys |-> IF k = "title" THEN titleError ELSE descriptionError]

\* validateForm: the errors object it builds and records
P2_validateForm(fd) ==
    LET titleError ==
            IF trim(fd.title) = <<>> THEN Some("Title is required")
            ELSE IF length(fd.title) > P2_TITLE_MAX
                 THEN Some("Title must not exceed 200 characters")
            ELSE undefined
        descriptionError ==
            IF length(fd.description) > P2_DESC_MAX
            THEN Some("Description must not exceed 1000 characters")
            ELSE undefined
        keys == {k \in {"title", "description"} :
                    IF k = "title" THEN titleError # undefined
                    ELSE descriptionError # undefined}
    IN  [k \in keys |-> IF k = "title" THEN titleError ELSE descriptionError]

\* handleChange; the Input and the Textarea are disabled while loading
P2_handleChange(st, name, value) ==
    IF st.loading THEN st
    ELSE [st EXCEPT
            !.formData[name] = value,
            !.validationErrors =
                IF name \in DOMAIN @ /\ @[name] # undefined
                THEN [k \in DOMAIN @ |-> IF k = name THEN undefined ELSE @[k]]
                ELSE @]

\* onChange={setCategory}, onChange={setPriority}, onChange={setDueDate}
P2_setCategory(st, value) == [st EXCEPT !.category = value]
P2_setPriority(st, value) == [st EXCEPT !.priority = value]
P2_setDueDate(st, value) == [st EXCEPT !.dueDate = value]

\* handleSubmit up to its first suspension; thrown is what onSubmit throws
\* before returning a promise, undefined when it returns one
P2_handleSubmit(st, thrown) ==
    LET errors == P2_validateForm(st.formData)
        args == [title |-> trim(st.formData.title),
                 description |-> trim(st.formData.description),
                 category |-> st.category, priority |-> st.priority,
                 dueDate |-> st.dueDate]
    IN  IF st.loading THEN st
        ELSE IF DOMAIN errors # {}
        THEN [st EXCEPT !.error = "", !.validationErrors = errors]
        ELSE IF thrown = undefined
        THEN [st EXCEPT !.error = "", !.validationErrors = errors,
                        !.loading = TRUE, !.pending = Append(@, args)]
        ELSE [st EXCEPT !.validationErrors = errors,
                        !.loading = FALSE,
                        !.error = IF thrown[1].isError THEN thrown[1].message
                                  ELSE "Failed to save task"]

\* handleSubmit after its await: rejected is what the promise rejects with,
\* undefined when it fulfils
P2_settle(st, i, rejected) ==
    IF i \notin 1..Len(st.pending) THEN st
    ELSE LET rest == SubSeq(st.pending, 1, i - 1)
                       \o SubSeq(st.pending, i + 1, Len(st.pending))
         IN  IF rejected # undefined
             THEN [st EXCEPT
                     !.pending = rest, !.loading = FALSE,
                     !.error = IF rejected[1].isError THEN rejected[1].message
                               ELSE "Failed to save task"]
             ELSE IF st.props.initialTitle = <<>> /\ st.props.initialDescription = <<>>
             THEN [st EXCEPT
                     !.pending = rest, !.loading = FALSE,
                     !.formData = [title |-> <<>>, description |-> <<>>],
                     !.category = null, !.priority = "medium", !.dueDate = null]
             ELSE [st EXCEPT !.pending = rest, !.loading = FALSE]

----------------------------------------------------------------------------

Init ==
    /\ variant \in Variants
    /\ \E p \in PropsValues :
        /\ props = KeptProps(p)
        /\ formData = [title |-> p.initialTitle,
                       description |-> p.initialDescription]
        /\ category = p.initialCategory
        /\ priority = InitialPriority(p)
        /\ dueDate = InitialDueDate(p)
        /\ twin = P2_mount(p)
    /\ loading = FALSE
    /\ validationErrors = [k \in {} |-> undefined]
    /\ error = ""
    /\ pending = <<>>
    /\ lastSubmit = NoSubmit

\* <Input ... disabled={loading}>, <Textarea ... disabled={loading}>
InputEnabled == ~loading

\* a submit button that is never disabled
SubmitEnabled_Always == TRUE

\* <Button type="submit" disabled={loading}>
SubmitEnabled == ~loading

\* an edit that drops every recorded error
ClearedError_All(errors, name) == [k \in DOMAIN errors \cup {name} |-> undefined]

\* an edit that leaves the recorded errors alone
ClearedError_None(errors, name) == errors

\* setValidationErrors(prev => ({ ...prev, [name]: undefined }))
ClearedError(errors, name) ==
    [k \in DOMAIN errors \cup {name} |->
        IF k = name THEN undefined ELSE errors[k]]

handleChange(name, value) ==
    /\ InputEnabled
    /\ formData' = [formData EXCEPT ![name] = value]
    /\ validationErrors' =
         IF Lookup(validationErrors, name) # undefined
         THEN ClearedError(validationErrors, name)
         ELSE validationErrors
    /\ lastSubmit' = NoSubmit
    /\ twin' = P2_handleChange(twin, name, value)
    /\ UNCHANGED <<variant, props, category, priority, dueDate, loading,
                   error, pending>>

ChangeTitle == \E value \in TitleValues : handleChange("title", value)

ChangeDescription ==
    \E value \in DescriptionValues : handleChange("description", value)

\* <CategorySelector value={category} onChange={setCategory} />
SetCategory ==
    /\ \E value \in Categories :
        /\ category' = value
        /\ twin' = P2_setCategory(twin, value)
    /\ lastSubmit' = NoSubmit
    /\ UNCHANGED <<variant, props, formData, priority, dueDate, loading,
                   validationErrors, error, pending>>

\* a priority setter that also wipes the recorded errors
SetPriority_ClearsErrors ==
    /\ \E value \in Priorities :
        /\ priority' = value
        /\ twin' = P2_setPriority(twin, value)
    /\ lastSubmit' = NoSubmit
    /\ validationErrors' = [k \in {} |-> undefined]
    /\ error' = ""
    /\ UNCHANGED <<variant, props, formData, category, dueDate, loading,
                   pending>>

\* <PrioritySelector value={priority} onChange={setPriority} />
SetPriority ==
    /\ \E value \in Priorities :
        /\ priority' = value
        /\ twin' = P2_setPriority(twin, value)
    /\ lastSubmit' = NoSubmit
    /\ UNCHANGED <<variant, props, formData, category, dueDate, loading,
                   validationErrors, error, pending>>

\* <DatePicker value={dueDate} onChange={setDueDate} />
SetDueDate ==
    /\ \E value \in DueDates :
        /\ dueDate' = value
        /\ twin' = P2_setDueDate(twin, value)
    /\ lastSubmit' = NoSubmit
    /\ UNCHANGED <<variant, props, formData, category, priority, loading,
                   validationErrors, error, pending>>

\* a call built from the title and description only
NewCall_DropsSelections ==
    [args    |-> OnSubmitArgs(formData, null, "medium", null),
     closure |-> [formData |-> formData, category |-> category,
                  priority |-> priority, dueDate |-> dueDate]]

\* the call handed to onSubmit, with the render's values the handler closed over
NewCall ==
    [args    |-> OnSubmitArgs(formData, category, priority, dueDate),
     closure |-> [formData |-> formData, category |-> category,
                  priority |-> priority, dueDate |-> dueDate]]

\* a handleSubmit that calls setError('') only after validation has passed
SubmitInvalid_KeepsError ==
    /\ SubmitEnabled
    /\ ~validateFormReturn(validateFormErrors(formData, variant))
    /\ validationErrors' = validateFormErrors(formData, variant)
    /\ lastSubmit' = Progress("invalid", undefined, undefined)
    /\ twin' = P2_handleSubmit(twin, undefined)
    /\ UNCHANGED <<variant, props, formData, category, priority, dueDate,
                   loading, pending, error>>

\* handleSubmit up to its first suspension: validation fails
SubmitInvalid ==
    /\ SubmitEnabled
    /\ ~validateFormReturn(validateFormErrors(formData, variant))
    /\ error' = ""
    /\ validationErrors' = validateFormErrors(formData, variant)
    /\ lastSubmit' = Progress("invalid", undefined, undefined)
    /\ twin' = P2_handleSubmit(twin, undefined)
    /\ UNCHANGED <<variant, props, formData, category, priority, dueDate,
                   loading, pending>>

\* handleSubmit up to its first suspension: onSubmit returns a promise
SubmitValid ==
    /\ SubmitEnabled
    /\ validateFormReturn(validateFormErrors(formData, variant))
    /\ error' = ""
    /\ validationErrors' = validateFormErrors(formData, variant)
    /\ loading' = TRUE
    /\ pending' = Append(pending, NewCall)
    /\ lastSubmit' = Progress("submitting", undefined, Some(NewCall.args))
    /\ twin' = P2_handleSubmit(twin, undefined)
    /\ UNCHANGED <<variant, props, formData, category, priority, dueDate>>

\* handleSubmit when onSubmit throws before returning a promise:
\* setLoading(true), catch, finally all land in one render
SubmitThrows ==
    /\ SubmitEnabled
    /\ validateFormReturn(validateFormErrors(formData, variant))
    /\ \E err \in Thrown :
        /\ error' = CatchMessage(err)
        /\ lastSubmit' = Progress("threw", Some(err), Some(NewCall.args))
        /\ twin' = P2_handleSubmit(twin, Some(err))
    /\ validationErrors' = validateFormErrors(formData, variant)
    /\ loading' = FALSE
    /\ UNCHANGED <<variant, props, formData, category, priority, dueDate,
                   pending>>

handleSubmit == SubmitInvalid \/ SubmitValid \/ SubmitThrows

Without(seq, i) == SubSeq(seq, 1, i - 1) \o SubSeq(seq, i + 1, Len(seq))

\* a reset that forgets setPriority('medium')
ResetValues_KeepsPriority ==
    [formData |-> [title |-> <<>>, description |-> <<>>],
     category |-> null, priority |-> priority, dueDate |-> null]

\* setFormData({ title: '', description: '' }); setCategory(null); ...
ResetValues ==
    [formData |-> [title |-> <<>>, description |-> <<>>],
     category |-> null, priority |-> "medium", dueDate |-> null]

\* the rest of the try block after await onSubmit(...) fulfils, then finally
SubmitFulfilled ==
    /\ \E i \in 1..Len(pending) :
        /\ pending' = Without(pending, i)
        /\ lastSubmit' = Progress("fulfilled", undefined, Some(pending[i].args))
        /\ twin' = P2_settle(twin, i, undefined)
    /\ IF IsCreateMode(props)
       THEN /\ formData' = ResetValues.formData
            /\ category' = ResetValues.category
            /\ priority' = ResetValues.priority
            /\ dueDate' = ResetValues.dueDate
       ELSE UNCHANGED <<formData, category, priority, dueDate>>
    /\ loading' = FALSE
    /\ UNCHANGED <<variant, props, validationErrors, error>>

\* a catch block with setLoading(false) left in the try block only
SubmitRejected_NoFinally ==
    /\ \E i \in 1..Len(pending), err \in Thrown :
        /\ pending' = Without(pending, i)
        /\ error' = CatchMessage(err)
        /\ lastSubmit' = Progress("rejected", Some(err), undefined)
        /\ twin' = P2_settle(twin, i, Some(err))
    /\ UNCHANGED <<variant, props, formData, category, priority, dueDate,
                   validationErrors, loading>>

\* catch (err) after await onSubmit(...) rejects, then finally
SubmitRejected ==
    /\ \E i \in 1..Len(pending), err \in Thrown :
        /\ pending' = Without(pending, i)
        /\ error' = CatchMessage(err)
        /\ lastSubmit' = Progress("rejected", Some(err), undefined)
        /\ twin' = P2_settle(twin, i, Some(err))
    /\ loading' = FALSE
    /\ UNCHANGED <<variant, props, formData, category, priority, dueDate,
                   validationErrors>>

Next ==
    \/ ChangeTitle
    \/ ChangeDescription
    \/ SetCategory
    \/ SetPriority
    \/ SetDueDate
    \/ handleSubmit
    \/ SubmitFulfilled
    \/ SubmitRejected

Spec == Init /\ [][Next]_vars

\* a pending onSubmit promise settles, and its continuation then runs
FairSpec == Spec /\ WF_vars(SubmitFulfilled \/ SubmitRejected)

----------------------------------------------------------------------------
(* Vocabulary of the properties *)

IsBlank(s) == \A i \in 1..Len(s) : s[i].c \in WhiteSpace

HasError(errors, name) == name \in DOMAIN errors /\ errors[name] # undefined

\* the latest event was handleSubmit's synchronous part: validation just ran
\* on the formData now held
Validated == lastSubmit.kind \in {"invalid", "submitting", "threw"}

TitleIsValid == ~IsBlank(formData.title) /\ length(formData.title) <= TITLE_MAX

ConstructedEmpty == props.initialTitle = <<>> /\ props.initialDescription = <<>>

ArgsAcceptable(a) ==
    /\ a.title # <<>>
    /\ a.title[1].c \notin WhiteSpace
    /\ a.title[Len(a.title)].c \notin WhiteSpace
    /\ length(a.title) <= TITLE_MAX
    /\ length(a.description) <= DESC_MAX

----------------------------------------------------------------------------
(* C1: while a persistence call is in flight (loading), no step runs       *)
(* handleSubmit or hands a further call to the persistence callback, so    *)
(* at most one call is in flight at any time.                              *)
C1_SingleFlight ==
    /\ [](Len(pending) <= 1)
    /\ [][loading => /\ Len(pending') <= Len(pending)
                     /\ lastSubmit'.kind \notin {"invalid", "submitting", "threw"}]_vars

C1_Witness == loading /\ Len(pending) = 1 /\ lastSubmit.kind = "none"

(* C2: every entry into the submitting state is followed by a return to    *)
(* idle, however the persistence call ends, given that it ends.            *)
C2_ReturnsToIdle == loading ~> ~loading

C2_Witness ==
    /\ ~loading
    /\ lastSubmit.kind = "rejected"
    /\ ~lastSubmit.err[1].isError

(* C3: every call handed to the persistence callback carries a non-empty   *)
(* title without leading or trailing whitespace of at most 200 characters  *)
(* and a description of at most 1000 characters; a handleSubmit run on a   *)
(* draft that fails validation hands over no call.                         *)
C3_CallbackArguments ==
    /\ \A i \in 1..Len(pending) : ArgsAcceptable(pending[i].args)
    /\ lastSubmit.args # undefined => ArgsAcceptable(lastSubmit.args[1])
    /\ Validated /\ ~(TitleIsValid /\ length(formData.description) <= DESC_MAX)
         => lastSubmit.args = undefined /\ lastSubmit.kind = "invalid"

C3_Witness ==
    /\ lastSubmit.kind = "submitting"
    /\ length(formData.title) = TITLE_MAX
    /\ lastSubmit.args[1].title # formData.title
    /\ lastSubmit.args[1].description # formData.description

(* C4: when the persistence call fails, the draft afterwards is the draft  *)
(* handleSubmit was accepted with, the failure's message is the whole-form *)
(* error, and the form is idle again with submit enabled.                  *)
C4_FailureKeepsSubmittedDraft ==
    [][lastSubmit'.kind = "rejected" /\ Len(pending) = 1 =>
        /\ formData' = pending[1].closure.formData
        /\ category' = pending[1].closure.category
        /\ priority' = pending[1].closure.priority
        /\ dueDate' = pending[1].closure.dueDate
        /\ error' = IF lastSubmit'.err[1].isError
                    THEN lastSubmit'.err[1].message ELSE FALLBACK_MESSAGE
        /\ ~loading'
        /\ SubmitEnabled']_vars

(* C5: in a form constructed with empty initial title and description, the *)
(* draft right after a successful submit is blank: title and description   *)
(* empty, no category, priority "medium", no due date.                     *)
C5_CreateModeReset ==
    lastSubmit.kind = "fulfilled" /\ ConstructedEmpty =>
        /\ formData = [title |-> <<>>, description |-> <<>>]
        /\ category = null
        /\ priority = "medium"
        /\ dueDate = null

C5_Witness ==
    /\ lastSubmit.kind = "fulfilled"
    /\ ConstructedEmpty
    /\ lastSubmit.args[1].category # null
    /\ lastSubmit.args[1].priority = "high"
    /\ lastSubmit.args[1].dueDate # null
    /\ priority = "medium"

(* C6: in a form constructed with a non-empty initial title or description *)
(* neither step of a successful submit (its acceptance, its completion)    *)
(* changes any field of the draft.                                         *)
C6_EditModeKeepsDraft ==
    [][lastSubmit'.kind \in {"submitting", "fulfilled"} /\ ~ConstructedEmpty
         => draft' = draft]_vars

C6_Witness ==
    /\ lastSubmit.kind = "fulfilled"
    /\ props.initialTitle = <<>>
    /\ props.initialDescription # <<>>
    /\ formData.title # <<>>
    /\ priority = "high"

(* C7: when validation runs on a title made of whitespace only (or empty), *)
(* it fails and records a title error, whatever the description.           *)
C7_BlankTitleRejected ==
    Validated /\ IsBlank(formData.title) =>
        /\ lastSubmit.kind = "invalid"
        /\ HasError(validationErrors, "title")

C7_Witness ==
    /\ lastSubmit.kind = "invalid"
    /\ formData.title # <<>>
    /\ IsBlank(formData.title)
    /\ HasError(validationErrors, "title")
    /\ ~IsBlank(formData.description)

(* C8 as stated: validation of a title of 201 or more characters fails     *)
(* with the length message; a title of exactly 200 characters that is not  *)
(* all whitespace gets no title error.                                     *)
C8_LongTitleLengthMessage ==
    /\ Validated /\ length(formData.title) > TITLE_MAX =>
         /\ lastSubmit.kind = "invalid"
         /\ Lookup(validationErrors, "title") = Some(TitleTooLong(variant))
    /\ Validated /\ length(formData.title) = TITLE_MAX /\ ~IsBlank(formData.title)
         => ~HasError(validationErrors, "title")

(* C8 amended: validation of a title of 201 or more characters fails, with *)
(* the length message when the title holds a non-whitespace character and  *)
(* with the 'required' message when it is all whitespace; a title of       *)
(* exactly 200 characters that is not all whitespace gets no title error.  *)
C8_LongTitleRejected ==
    /\ Validated /\ length(formData.title) > TITLE_MAX =>
         /\ lastSubmit.kind = "invalid"
         /\ Lookup(validationErrors, "title") =
              IF IsBlank(formData.title) THEN Some(TitleRequired(variant))
                                         ELSE Some(TitleTooLong(variant))
    /\ Validated /\ length(formData.title) = TITLE_MAX /\ ~IsBlank(formData.title)
         => ~HasError(validationErrors, "title")

C8_Witness ==
    /\ lastSubmit.kind = "invalid"
    /\ length(formData.title) = TITLE_MAX + 1
    /\ length(trim(formData.title)) < TITLE_MAX
    /\ Lookup(validationErrors, "title") = Some(TitleTooLong(variant))

(* C9: validation of a description of 1001 or more characters fails and    *)
(* records a description error; a description of 0 to 1000 characters,     *)
(* blank ones included, gets no description error, and validation then     *)
(* passes whenever the title is valid.                                     *)
C9_DescriptionLimit ==
    /\ Validated /\ length(formData.description) > DESC_MAX =>
         /\ lastSubmit.kind = "invalid"
         /\ HasError(validationErrors, "description")
    /\ Validated /\ length(formData.description) <= DESC_MAX =>
         /\ ~HasError(validationErrors, "description")
         /\ TitleIsValid => lastSubmit.kind # "invalid"

C9_Witness ==
    /\ lastSubmit.kind = "submitting"
    /\ length(formData.description) = DESC_MAX
    /\ IsBlank(SubSeq(formData.description, 1, 1))

(* C10: an edit of a field that has a recorded error removes that error    *)
(* and stores the new value; the other field and its recorded error stay   *)
(* as they were, and no error is recorded for the new value even when it   *)
(* is invalid.                                                             *)
C10_EditClearsOwnError ==
    [][\A name \in FieldNames :
         (/\ formData'[name] # formData[name]
          /\ ~loading /\ ~loading'
          /\ HasError(validationErrors, name))
         => /\ ~HasError(validationErrors', name)
            /\ \A other \in FieldNames \ {name} :
                 /\ formData'[other] = formData[other]
                 /\ Lookup(validationErrors', other) = Lookup(validationErrors, other)
            /\ error' = error
            /\ lastSubmit'.kind = "none"]_vars

C10_Witness ==
    /\ "title" \in DOMAIN validationErrors
    /\ validationErrors["title"] = undefined
    /\ length(formData.title) > TITLE_MAX
    /\ HasError(validationErrors, "description")

DraftIsValid == TitleIsValid /\ length(formData.description) <= DESC_MAX

\* t is s without its leading and trailing whitespace
IsTrimOf(t, s) ==
    \E i \in 1..(Len(s) + 1), j \in 0..Len(s) :
        /\ t = SubSeq(s, i, j)
        /\ \A k \in 1..Len(s) : (k < i \/ k > j) => s[k].c \in WhiteSpace
        /\ t # <<>> => t[1].c \notin WhiteSpace /\ t[Len(t)].c \notin WhiteSpace

(* C11 as stated: a handleSubmit run on a draft that fails validation      *)
(* hands over no call and stays idle, and changes nothing but the recorded *)
(* field errors: draft, loading and the whole-form error stay as they      *)
(* were.                                                                   *)
C11_InvalidSubmitKeepsFormError ==
    [][Validated' /\ ~DraftIsValid =>
        /\ lastSubmit'.kind = "invalid"
        /\ lastSubmit'.args = undefined
        /\ pending' = pending
        /\ loading' = loading /\ ~loading'
        /\ draft' = draft
        /\ error' = error]_vars

(* C11 amended: a handleSubmit run on a draft that fails validation hands  *)
(* over no call and stays idle; it leaves the draft as it was, records the *)
(* field errors and clears the whole-form error.                           *)
C11_InvalidSubmitIsLocal ==
    [][Validated' /\ ~DraftIsValid =>
        /\ lastSubmit'.kind = "invalid"
        /\ lastSubmit'.args = undefined
        /\ pending' = pending
        /\ loading' = loading /\ ~loading'
        /\ draft' = draft
        /\ error' = ""]_vars

C11_Witness ==
    /\ lastSubmit.kind = "invalid"
    /\ TitleIsValid
    /\ HasError(validationErrors, "description")
    /\ ~HasError(validationErrors, "title")
    /\ category # null

(* C12: while the form is submitting no input event is accepted, so no     *)
(* step that leaves it submitting changes the draft.                       *)
C12_DraftFrozenWhileSubmitting ==
    [][loading /\ loading' => draft' = draft]_vars

(* C13: a handleSubmit run on a valid draft hands exactly one call to the  *)
(* persistence callback, with the trimmed title, the trimmed description   *)
(* and the category, priority and due date the draft holds at that moment. *)
C13_OneCallWithDraftValues ==
    [][Validated' /\ DraftIsValid =>
        /\ lastSubmit'.kind \in {"submitting", "threw"}
        /\ lastSubmit'.args # undefined
        /\ IsTrimOf(lastSubmit'.args[1].title, formData.title)
        /\ IsTrimOf(lastSubmit'.args[1].description, formData.description)
        /\ lastSubmit'.args[1].category = category
        /\ lastSubmit'.args[1].priority = priority
        /\ lastSubmit'.args[1].dueDate = dueDate
        /\ lastSubmit'.kind = "threw" => pending' = pending
        /\ lastSubmit'.kind = "submitting" =>
             /\ Len(pending') = Len(pending) + 1
             /\ SubSeq(pending', 1, Len(pending)) = pending
             /\ pending'[Len(pending')].args = lastSubmit'.args[1]]_vars

C13_Witness ==
    /\ lastSubmit.kind = "submitting"
    /\ Len(pending) = 1
    /\ pending[1].args.title # formData.title
    /\ pending[1].args.category # null
    /\ pending[1].args.priority = "high"
    /\ pending[1].args.dueDate # null

\* the rule of a field, on the draft now held
Violates(name) ==
    IF name = "title" THEN ~TitleIsValid
    ELSE length(formData.description) > DESC_MAX

(* C14: after a failed persistence call the whole-form error is not empty: *)
(* it is the failure's message, or the fallback 'Failed to save task' when *)
(* the failure carries no usable message; and the form is idle again.      *)
C14_FailureAlwaysShown ==
    lastSubmit.kind \in {"rejected", "threw"} =>
        /\ error # ""
        /\ error = IF lastSubmit.err[1].isError /\ lastSubmit.err[1].message # ""
                   THEN lastSubmit.err[1].message ELSE "Failed to save task"
        /\ ~loading

(* C15: right after validation the error mapping is exactly the fresh one: *)
(* it has an entry for a field if and only if that field's value breaks    *)
(* its rule, and every entry is an error.                                  *)
C15_ErrorsReplacedWholesale ==
    Validated =>
        /\ DOMAIN validationErrors = {name \in FieldNames : Violates(name)}
        /\ \A name \in DOMAIN validationErrors : validationErrors[name] # undefined

C15_Witness ==
    /\ lastSubmit.kind = "invalid"
    /\ Violates("title")
    /\ Violates("description")
    /\ DOMAIN validationErrors = FieldNames

(* C16: a step that sets category, priority or due date through its        *)
(* selector changes that field alone: title, description, the recorded     *)
(* errors, the whole-form error, loading and the calls in flight stay; and *)
(* whether validation passes depends on title and description only.        *)
C16_SettersOnlySetTheirField ==
    /\ [][(\E i \in 2..4 : draft'[i] # draft[i]) /\ loading' = loading =>
            /\ formData' = formData
            /\ Cardinality({i \in 2..4 : draft'[i] # draft[i]}) = 1
            /\ validationErrors' = validationErrors
            /\ error' = error
            /\ pending' = pending
            /\ lastSubmit'.kind = "none"]_vars
    /\ [](Validated => (lastSubmit.kind = "invalid" <=> ~DraftIsValid))

C16_Witness ==
    /\ lastSubmit.kind = "none"
    /\ loading
    /\ pending[1].closure.category # category
    /\ pending[1].closure.priority # priority
    /\ pending[1].closure.dueDate # dueDate

(* C17: a recorded error is never stale: an error held for the title means *)
(* the title now held is blank or longer than 200 characters, an error     *)
(* held for the description means it is longer than 1000 characters.       *)
C17_NoStaleError ==
    \A name \in FieldNames : HasError(validationErrors, name) => Violates(name)

C17_Witness ==
    /\ lastSubmit.kind = "none"
    /\ HasError(validationErrors, "title")
    /\ "description" \in DOMAIN validationErrors
    /\ ~HasError(validationErrors, "description")
    /\ ~Violates("description")

(* C18: while loading no field error is recorded and the whole-form error  *)
(* is empty; the whole-form error becomes non-empty only by a failed       *)
(* persistence call, is emptied by every later handleSubmit run that does  *)
(* not fail that way, and is touched by nothing else.                      *)
C18_FormErrorOnlyAfterFailure ==
    /\ [](loading => /\ \A name \in FieldNames : ~HasError(validationErrors, name)
                     /\ error = "")
    /\ [][/\ error' # error => \/ lastSubmit'.kind \in {"rejected", "threw"}
                               \/ Validated' /\ error' = ""
          /\ lastSubmit'.kind \in {"invalid", "submitting", "fulfilled"}
               => error' = ""]_vars

C18_Witness ==
    /\ ~loading
    /\ error = "Network error"
    /\ lastSubmit.kind = "none"
    /\ Violates("title")
    /\ ~HasError(validationErrors, "title")

(* C19: the two copies of the component, mounted with the same props and   *)
(* fed the same events, always hold the same draft, the same loading flag, *)
(* the same whole-form error, errors for the same fields, and the same     *)
(* calls in flight.                                                        *)
C19_CopiesAgree ==
    /\ twin.formData = formData
    /\ twin.category = category
    /\ twin.priority = priority
    /\ twin.dueDate = dueDate
    /\ twin.loading = loading
    /\ twin.error = error
    /\ {name \in FieldNames : HasError(twin.validationErrors, name)}
         = {name \in FieldNames : HasError(validationErrors, name)}
    /\ twin.pending = [i \in 1..Len(pending) |-> pending[i].args]

C19_Witness ==
    /\ variant = "TaskForm.tsx"
    /\ HasError(validationErrors, "title")
    /\ validationErrors["title"] # twin.validationErrors["title"]
    /\ HasError(validationErrors, "description")
    /\ validationErrors["description"] # twin.validationErrors["description"]
    /\ length(trim(formData.title)) <= TITLE_MAX
    /\ ~loading /\ lastSubmit.kind = "invalid"

====
